---- MODULE Spec2Model ----
(***************************************************************************)
(* The chat session of src/app.py: the transcript kept in                  *)
(* st.session_state.chat_history, its persisted record chat_history.json,  *)
(* the chat input handler, the auxiliary resume / dataset analyses and the *)
(* PDF export.                                                             *)
(*                                                                         *)
(* A text is a sequence of characters.  A run of ASCII letters, digits and *)
(* punctuation that none of the modelled functions looks into ("rate",     *)
(* "Error:") is one element; the characters the functions distinguish      *)
(* (whitespace, the double quote, the backslash, characters outside        *)
(* latin-1) are elements of their own.                                     *)
(***************************************************************************)
EXTENDS Integers, Sequences, FiniteSets, TLC

\* ------------------------------------------------------------ characters
SP == " "
NL == "<LF>"
QUOTE == "<DQUOTE>"
BSL == "<BACKSLASH>"
\* U+26A0 WARNING SIGN and U+FE0F VARIATION SELECTOR-16: the two code points
\* of the emoji that opens both fallback strings of get_ai_response.
WARN == "<U+26A0>"
VS16 == "<U+FE0F>"
\* json.dump(..., indent=4): a newline followed by the indentation.
WS == "<NEWLINE+INDENT>"

\* ------------------------------------------------------------ bounds
\* The transcript never grows beyond MaxTurns turns in the model.
MaxTurns == 4
\* A write that fails has put at most MaxWritten characters into the file.
MaxWritten == 2

\* ------------------------------------------------------------ Python values
Str(s) == [type |-> "str", s |-> s, items |-> <<>>]
Tuple(items) == [type |-> "tuple", s |-> <<>>, items |-> items]
List(items) == [type |-> "list", s |-> <<>>, items |-> items]
Dict == [type |-> "dict", s |-> <<>>, items |-> <<>>]
\* "chat_history" not in st.session_state
Unset == [type |-> "unset", s |-> <<>>, items |-> <<>>]

\* Mutant: the new turn is put in front (insert(0, x)).
append_front(h, x) == [h EXCEPT !.items = <<x>> \o h.items]

\* list.append: the receiver must be a list (anything else has no append).
append(h, x) == [h EXCEPT !.items = Append(h.items, x)]

\* ------------------------------------------------------------ json.dump
\* py_encode_basestring_ascii (ensure_ascii=True): one character of a string.
EscapeChar(c) ==
  CASE c = QUOTE -> <<BSL, QUOTE>>
    [] c = BSL -> <<BSL, BSL>>
    [] c = NL -> <<BSL, "n">>
    [] c = WARN -> <<BSL, "u26a0">>
    [] c = VS16 -> <<BSL, "ufe0f">>
    [] OTHER -> <<c>>

\* Mutant: the characters are written as they are, unescaped.
EscapeRaw(s) == s

RECURSIVE Escape(_)
Escape(s) == IF s = <<>> THEN <<>> ELSE EscapeChar(Head(s)) \o Escape(Tail(s))

RECURSIVE json_dumps(_)
RECURSIVE DumpItems(_)
\* The elements of an array, separated by "," and a newline + indentation.
DumpItems(items) ==
  IF Len(items) = 1 THEN json_dumps(items[1])
  ELSE json_dumps(Head(items)) \o <<",", WS>> \o DumpItems(Tail(items))

\* The text json.dump(v, f, indent=4) writes: tuples and lists both become
\* arrays, strings become escaped string literals.
json_dumps(v) ==
  CASE v.type = "str" -> <<QUOTE>> \o Escape(v.s) \o <<QUOTE>>
    [] v.type = "dict" -> <<"{", "}">>
    [] OTHER ->
         IF v.items = <<>> THEN <<"[", "]">>
         ELSE <<"[", WS>> \o DumpItems(v.items) \o <<WS, "]">>

\* ------------------------------------------------------------ json.load
Fail == [ok |-> FALSE, val |-> Unset, next |-> 0]
Ok(v, n) == [ok |-> TRUE, val |-> v, next |-> n]

RECURSIVE SkipWS(_, _)
SkipWS(t, i) == IF i <= Len(t) /\ t[i] = WS THEN SkipWS(t, i + 1) ELSE i

\* The character an escape sequence stands for; "" when it is no escape.
Unescape(c) ==
  CASE c = QUOTE -> QUOTE
    [] c = BSL -> BSL
    [] c = "n" -> NL
    [] c = "u26a0" -> WARN
    [] c = "ufe0f" -> VS16
    [] OTHER -> ""

RECURSIVE ParseString(_, _, _)
\* t[i] is the first character after the opening quote.
ParseString(t, i, acc) ==
  IF i > Len(t) THEN Fail
  ELSE IF t[i] = QUOTE THEN Ok(Str(acc), i + 1)
  ELSE IF t[i] = NL THEN Fail
  ELSE IF t[i] = BSL THEN
    IF i + 1 > Len(t) \/ Unescape(t[i + 1]) = "" THEN Fail
    ELSE ParseString(t, i + 2, Append(acc, Unescape(t[i + 1])))
  ELSE ParseString(t, i + 1, Append(acc, t[i]))

RECURSIVE ParseValue(_, _)
RECURSIVE ParseElements(_, _, _)
ParseElements(t, i, acc) ==
  LET r == ParseValue(t, i) IN
  IF ~r.ok THEN Fail
  ELSE LET k == SkipWS(t, r.next) IN
       IF k > Len(t) THEN Fail
       ELSE IF t[k] = "," THEN ParseElements(t, k + 1, Append(acc, r.val))
       ELSE IF t[k] = "]" THEN Ok(List(Append(acc, r.val)), k + 1)
       ELSE Fail

ParseValue(t, i) ==
  LET j == SkipWS(t, i) IN
  IF j > Len(t) THEN Fail
  ELSE IF t[j] = QUOTE THEN ParseString(t, j + 1, <<>>)
  ELSE IF t[j] = "[" THEN
    LET k == SkipWS(t, j + 1) IN
    IF k <= Len(t) /\ t[k] = "]" THEN Ok(List(<<>>), k + 1)
    ELSE ParseElements(t, k, <<>>)
  ELSE IF t[j] = "{" THEN
    LET k == SkipWS(t, j + 1) IN
    IF k <= Len(t) /\ t[k] = "}" THEN Ok(Dict, k + 1) ELSE Fail
  ELSE Fail

\* json.load(f): one value, then nothing but whitespace; ok = FALSE stands
\* for json.JSONDecodeError.
json_loads(t) ==
  LET r == ParseValue(t, 1) IN
  IF r.ok /\ SkipWS(t, r.next) > Len(t) THEN r ELSE Fail

\* ------------------------------------------------------------ chat_history.json
CHAT_HISTORY_FILE(kind, content) == [kind |-> kind, content |-> content]

Returned(v) == [raised |-> "none", val |-> v]
Raised(e) == [raised |-> e, val |-> Unset]

\* open(CHAT_HISTORY_FILE, "r") and json.load; only FileNotFoundError and
\* json.JSONDecodeError are caught.
load_chat_history(f) ==
  CASE f.kind = "absent" -> Returned(List(<<>>))
    [] f.kind = "unreadable" -> Raised("PermissionError")
    [] OTHER ->
         LET r == json_loads(f.content) IN
         IF r.ok THEN Returned(r.val) ELSE Returned(List(<<>>))

\* ------------------------------------------------------------ get_ai_response
NoResponse == <<WARN, VS16, SP, "No", SP, "response", SP, "generated.">>
ApiErrorPrefix == <<WARN, VS16, SP, "API", SP, "Error:", SP>>

\* What model.generate_content does on one call: it returns a response with
\* a text (possibly empty), or raises an exception with a message.
Generated(t) == [kind |-> "text", text |-> t]
Raises(msg) == [kind |-> "raise", text |-> msg]

\* Mutant: the exception's message is returned without the prefix.
get_ai_response_verbatim(o) ==
  IF o.kind = "raise" THEN o.text
  ELSE IF o.text # <<>> THEN o.text
  ELSE NoResponse

get_ai_response(o) ==
  IF o.kind = "raise" THEN ApiErrorPrefix \o o.text
  ELSE IF o.text # <<>> THEN o.text
  ELSE NoResponse

\* ------------------------------------------------------------ the pacing loop
IsSpace(c) == c \in {SP, NL}

RECURSIVE split(_, _, _)
\* str.split(): the maximal runs of non-whitespace characters, in order.
split(s, word, words) ==
  IF s = <<>> THEN (IF word = <<>> THEN words ELSE Append(words, word))
  ELSE IF IsSpace(Head(s)) THEN
    split(Tail(s), <<>>, IF word = <<>> THEN words ELSE Append(words, word))
  ELSE split(Tail(s), Append(word, Head(s)), words)

RECURSIVE StreamLoop(_, _)
\* for word in ....split(): response_text += word + " "
StreamLoop(words, response_text) ==
  IF words = <<>> THEN response_text
  ELSE StreamLoop(Tail(words), response_text \o Head(words) \o <<SP>>)

\* ------------------------------------------------------------ strftime
ClockTime(n) ==
  CASE n = 0 -> "10:00:00"
    [] n = 1 -> "10:00:01"
    [] n = 2 -> "10:00:02"
    [] OTHER -> "10:00:03"

\* datetime.datetime.now().strftime("%Y-%m-%d %H:%M:%S")
strftime(n) == <<"2024-01-01", SP, ClockTime(n)>>

Turn(role, msg, ts) == Tuple(<<Str(<<role>>), Str(msg), Str(ts)>>)

\* ------------------------------------------------------------ export_pdf
\* The core font Arial holds latin-1 only: FPDF raises on any other character.
Latin1(text) == \A i \in 1..Len(text) : text[i] \notin {WARN, VS16}

RoleName(role) == IF role = <<"user">> THEN "User" ELSE "AI"

Header(turn) ==
  <<"[">> \o turn.items[3].s \o <<"]", SP, RoleName(turn.items[1].s), ":">>

RECURSIVE Cells(_)
\* One bold header cell and one multi_cell with the message per turn.
Cells(items) ==
  IF items = <<>> THEN <<>>
  ELSE <<[style |-> "B", text |-> Header(Head(items))],
         [style |-> "", text |-> Head(items).items[2].s]>> \o Cells(Tail(items))

export_pdf(h) ==
  IF \E i \in 1..Len(h.items) :
       ~Latin1(Header(h.items[i])) \/ ~Latin1(h.items[i].items[2].s)
  THEN [raised |-> "UnicodeEncodeError", doc |-> <<>>]
  ELSE [raised |-> "none",
        doc |-> <<[style |-> "C", text |-> <<"Chat History">>]>> \o Cells(h.items)]

\* ------------------------------------------------------------ inputs
RateLimited == <<"rate", SP, "limited">>

Questions ==
  { <<"What", SP, "is", SP, "overfitting?">>,
    <<"say", SP, QUOTE, "hi", QUOTE, NL, BSL>> }

\* The seconds at which a question may be submitted.
Times == {0, 1}

Outcomes ==
  { Generated(<<"#", SP, "Tips", NL, NL, "-", SP, SP, "x">>),
    Generated(<<>>),
    Raises(RateLimited) }

\* A record left by an earlier run: two turns one second apart.
SavedRecord ==
  List(<<List(<<Str(<<"user">>), Str(<<"What", SP, "is", SP, "overfitting?">>),
                Str(strftime(0))>>),
         List(<<Str(<<"assistant">>), Str(<<"Overfitting", SP, "is...">>),
                Str(strftime(1))>>)>>)

\* What chat_history.json may be when the first session starts.
InitialFiles ==
  { CHAT_HISTORY_FILE("absent", <<>>),
    CHAT_HISTORY_FILE("unreadable", <<>>),
    CHAT_HISTORY_FILE("data", <<>>),
    CHAT_HISTORY_FILE("data", <<"{", "}">>),
    CHAT_HISTORY_FILE("data", json_dumps(SavedRecord)) }

\* ------------------------------------------------------------ state
VARIABLES
  file,          \* chat_history.json
  chat_history,  \* st.session_state.chat_history
  uploaded,      \* the file held by the uploader: "none", "csv", "bad"
  pc,            \* where the session is: "start", "idle", "responding",
                 \* "saving" (open not yet called), "writing" (file open)
  user_input,    \* the chat handler's locals
  timestamp,
  api,           \* what generate_content did on the handler's call
  response,      \* what get_ai_response returned to the handler
  shown,         \* the AI text the latest resume / dataset analysis put on
                 \* the page
  download,      \* the PDF behind the download button on the page
  err            \* the exception that ended the latest script run

vars ==
  <<file, chat_history, uploaded, pc, user_input, timestamp, api,
    response, shown, download, err>>

NoCall == [kind |-> "none", text |-> <<>>]
NoPdf == [exists |-> FALSE, doc |-> <<>>]

Init ==
  /\ file \in InitialFiles
  /\ chat_history = Unset
  /\ uploaded = "none"
  /\ pc = "start"
  /\ user_input = <<>>
  /\ timestamp = <<>>
  /\ api = NoCall
  /\ response = <<>>
  /\ shown = <<>>
  /\ download = NoPdf
  /\ err = "none"

\* The handler's locals are gone when its script run is over.
ClearLocals ==
  /\ user_input' = <<>>
  /\ timestamp' = <<>>
  /\ api' = NoCall
  /\ response' = <<>>

\* The rest of a script run, after the chat handler: the history display, then
\* the upload block, which runs on every run while the uploader holds a file:
\* pd.read_csv raises on a file that is no table, otherwise the dataset
\* analysis of get_ai_response is shown (again).  The page is drawn anew on
\* every run, so what an earlier run showed is gone.
TailErr(up) == IF up = "bad" THEN "ParserError" ELSE "none"
TailShown(up, o) == IF up = "csv" THEN get_ai_response(o) ELSE <<>>
\* What generate_content may do in that part of the run: it is called only
\* while the uploader holds a table.
TailOutcomes(up) == IF up = "csv" THEN Outcomes ELSE {NoCall}

\* ------------------------------------------------------------ actions
\* The first script run of a session (lines 55-56 and the rest of the script).
StartSession ==
  /\ pc = "start"
  /\ LET r == load_chat_history(file) IN
     IF r.raised # "none"
     THEN /\ err' = r.raised
          /\ UNCHANGED <<chat_history, pc>>
     ELSE /\ chat_history' = r.val
          /\ pc' = "idle"
          /\ err' = "none"
  /\ UNCHANGED <<file, uploaded, user_input, timestamp, api, response,
                 shown, download>>

\* The browser session ends (tab closed, page reloaded, server stopped): the
\* session state is gone, the file stays as it is.
EndSession ==
  /\ pc # "start"
  /\ pc' = "start"
  /\ chat_history' = Unset
  /\ uploaded' = "none"
  /\ shown' = <<>>
  /\ download' = NoPdf
  /\ err' = "none"
  /\ ClearLocals
  /\ UNCHANGED file

\* Lines 122-124: a non-empty question is submitted.
Submit(q, now) ==
  /\ pc = "idle"
  /\ Len(chat_history.items) + 2 <= MaxTurns
  /\ IF chat_history.type # "list"
     THEN /\ err' = "AttributeError"
          /\ UNCHANGED <<chat_history, pc, user_input, timestamp>>
     ELSE /\ user_input' = q
          /\ timestamp' = strftime(now)
          /\ chat_history' = append(chat_history, Turn("user", q, strftime(now)))
          /\ pc' = "responding"
          /\ err' = "none"
  /\ shown' = <<>>
  /\ download' = NoPdf
  /\ UNCHANGED <<file, uploaded, api, response>>

\* Lines 126-135: the adapter call, the pacing loop, the assistant turn.
Respond(o) ==
  /\ pc = "responding"
  /\ api' = o
  /\ response' = get_ai_response(o)
  /\ chat_history' =
       append(chat_history,
              Turn("assistant",
                   StreamLoop(split(get_ai_response(o), <<>>, <<>>), <<>>),
                   timestamp))
  /\ pc' = "saving"
  /\ UNCHANGED <<file, uploaded, user_input, timestamp, shown, download,
                 err>>

\* Lines 126-133 are Streamlit calls: when the user has touched a widget in
\* the meantime (the industry selectbox, say), the next such call ends the
\* running script and the script is run again from the top.
Interrupt(o) ==
  /\ pc = "responding"
  /\ pc' = "idle"
  /\ ClearLocals
  /\ err' = TailErr(uploaded)
  /\ shown' = TailShown(uploaded, o)
  /\ UNCHANGED <<file, chat_history, uploaded, download>>

\* save_chat_history, line 51: open(..., "w") truncates the file.
SaveOpen ==
  /\ pc = "saving"
  /\ file' = CHAT_HISTORY_FILE("data", <<>>)
  /\ pc' = "writing"
  /\ UNCHANGED <<chat_history, uploaded, user_input, timestamp, api,
                 response, shown, download, err>>

\* Mutant: the record is written without the turn appended last (the save
\* placed before line 135).
SaveWriteStale(o) ==
  /\ pc = "writing"
  /\ file' = CHAT_HISTORY_FILE("data",
               json_dumps([chat_history EXCEPT
                 !.items = SubSeq(chat_history.items, 1, Len(chat_history.items) - 1)]))
  /\ pc' = "idle"
  /\ ClearLocals
  /\ err' = TailErr(uploaded)
  /\ shown' = TailShown(uploaded, o)
  /\ UNCHANGED <<chat_history, uploaded, download>>

\* Line 52 and the close of the file, then st.rerun() (line 137) and the run
\* it starts.
SaveWrite(o) ==
  /\ pc = "writing"
  /\ file' = CHAT_HISTORY_FILE("data", json_dumps(chat_history))
  /\ pc' = "idle"
  /\ ClearLocals
  /\ err' = TailErr(uploaded)
  /\ shown' = TailShown(uploaded, o)
  /\ UNCHANGED <<chat_history, uploaded, download>>

\* Line 52 fails part-way (disk full, quota) with the first MaxWritten
\* characters of the text in the file: OSError ends the script run, line 137
\* is not reached.
SaveWriteFails ==
  /\ pc = "writing"
  /\ file' = CHAT_HISTORY_FILE("data",
               SubSeq(json_dumps(chat_history), 1, MaxWritten))
  /\ pc' = "idle"
  /\ ClearLocals
  /\ err' = "OSError"
  /\ UNCHANGED <<chat_history, uploaded, shown, download>>

\* Mutant: the resume feedback is appended to the transcript as an answer.
AnalyzeResumeStored(o, o2) ==
  /\ pc = "idle"
  /\ chat_history.type = "list"
  /\ Len(chat_history.items) < MaxTurns
  /\ chat_history' = append(chat_history, Turn("assistant", get_ai_response(o), <<>>))
  /\ shown' = IF uploaded = "csv" THEN TailShown(uploaded, o2)
               ELSE get_ai_response(o)
  /\ err' = TailErr(uploaded)
  /\ download' = NoPdf
  /\ UNCHANGED <<file, uploaded, pc, user_input, timestamp, api, response>>

\* Lines 150-152: the resume button; the upload block follows it in the run.
AnalyzeResume(o, o2) ==
  /\ pc = "idle"
  /\ shown' = IF uploaded = "csv" THEN TailShown(uploaded, o2)
               ELSE get_ai_response(o)
  /\ err' = TailErr(uploaded)
  /\ download' = NoPdf
  /\ UNCHANGED <<file, chat_history, uploaded, pc, user_input, timestamp,
                 api, response>>

\* Lines 156-170: a file is put into the uploader; kind "bad" is a file
\* pd.read_csv cannot parse.
UploadData(kind, o) ==
  /\ pc = "idle"
  /\ kind \in {"csv", "bad"}
  /\ uploaded' = kind
  /\ err' = TailErr(kind)
  /\ shown' = TailShown(kind, o)
  /\ download' = NoPdf
  /\ UNCHANGED <<file, chat_history, pc, user_input, timestamp, api,
                 response>>

\* Lines 193-197: the export button.  Line 193 is reached only when the upload
\* block above it has not raised.
ExportChat(o) ==
  /\ pc = "idle"
  /\ uploaded # "bad"
  /\ shown' = TailShown(uploaded, o)
  /\ LET r == export_pdf(chat_history) IN
     /\ err' = r.raised
     /\ download' =
          IF r.raised = "none" THEN [exists |-> TRUE, doc |-> r.doc] ELSE NoPdf
  /\ UNCHANGED <<file, chat_history, uploaded, pc, user_input, timestamp,
                 api, response>>

Next ==
  \/ StartSession
  \/ EndSession
  \/ \E q \in Questions, now \in Times : Submit(q, now)
  \/ \E o \in Outcomes : Respond(o)
  \/ \E o \in TailOutcomes(uploaded) : Interrupt(o)
  \/ SaveOpen
  \/ \E o \in TailOutcomes(uploaded) : SaveWrite(o)
  \/ SaveWriteFails
  \/ \E o \in Outcomes, o2 \in TailOutcomes(uploaded) : AnalyzeResume(o, o2)
  \/ \E kind \in {"csv", "bad"} : \E o \in TailOutcomes(kind) : UploadData(kind, o)
  \/ \E o \in TailOutcomes(uploaded) : ExportChat(o)

Spec == Init /\ [][Next]_vars

\* ------------------------------------------------------------ properties
Last(q) == q[Len(q)]
IsPrefix(a, b) == Len(a) <= Len(b) /\ SubSeq(b, 1, Len(a)) = a

\* The (role, text, timestamp) triples of a transcript, in order.
Triples(h) ==
  [i \in 1..Len(h.items) |->
     <<h.items[i].items[1].s, h.items[i].items[2].s, h.items[i].items[3].s>>]

\* The file holds a complete record: a JSON array of [role, text, timestamp]
\* arrays of strings.
IsTranscriptRecord(f) ==
  /\ f.kind = "data"
  /\ LET r == json_loads(f.content) IN
     /\ r.ok
     /\ r.val.type = "list"
     /\ \A i \in 1..Len(r.val.items) :
          /\ r.val.items[i].type = "list"
          /\ Len(r.val.items[i].items) = 3
          /\ \A j \in 1..3 : r.val.items[i].items[j].type = "str"

RecordOf(h) == CHAT_HISTORY_FILE("data", json_dumps(h))

\* The text the pacing loop stores for "⚠️ API Error: rate limited".
RateLimitedStored ==
  <<WARN, VS16, SP, "API", SP, "Error:", SP, "rate", SP, "limited", SP>>

\* C1: within one session the transcript only grows at its end: across every
\* step of a session the transcript before the step is a prefix of the
\* transcript after it (no turn removed, reordered or modified).
C1_AppendOnly ==
  [][(pc # "start" /\ pc' # "start") =>
       /\ chat_history'.type = chat_history.type
       /\ IsPrefix(chat_history.items, chat_history'.items)]_vars

\* C1 witness: a session with two exchanges in the transcript, a table in the
\* uploader and an exported PDF on the page.
C1_Witness ==
  /\ pc = "idle"
  /\ Len(chat_history.items) = 4
  /\ uploaded = "csv"
  /\ download.exists

\* C2: an exchange appends the user turn with the submitted text, then the
\* assistant turn with the same timestamp, nothing else, and when its save
\* completes and the session is idle again the record is the serialization of
\* the whole transcript.
C2_ExchangeAppendsTwoThenSaves ==
  /\ [][(pc = "idle" /\ pc' = "responding") =>
          /\ user_input' \in Questions
          /\ chat_history'.items =
               Append(chat_history.items, Turn("user", user_input', timestamp'))]_vars
  /\ [][(pc = "responding" /\ pc' = "saving") =>
          /\ Len(chat_history'.items) = Len(chat_history.items) + 1
          /\ IsPrefix(chat_history.items, chat_history'.items)
          /\ Last(chat_history.items) = Turn("user", user_input, timestamp)
          /\ Last(chat_history'.items).type = "tuple"
          /\ Last(chat_history'.items).items[1] = Str(<<"assistant">>)
          /\ Last(chat_history'.items).items[3] = Str(timestamp)]_vars
  /\ [][(pc \in {"saving", "writing"} /\ pc' # "start") =>
          chat_history' = chat_history]_vars
  /\ [][(pc = "writing" /\ pc' = "idle" /\ err' # "OSError") =>
          /\ file' = RecordOf(chat_history')
          /\ Triples(load_chat_history(file').val) = Triples(chat_history')]_vars

\* C2 witness: idle after the second exchange of a session, record written.
C2_Witness ==
  /\ pc = "idle"
  /\ err = "none"
  /\ Len(chat_history.items) = 4
  /\ \A i \in 1..4 : chat_history.items[i].type = "tuple"
  /\ file = RecordOf(chat_history)

\* C3: loading what save_chat_history writes for a transcript gives a list of
\* as many turns, in the same order, with equal (role, text, timestamp)
\* triples.
C3_SaveLoadRoundTrip ==
  chat_history.type = "list" =>
    LET r == load_chat_history(RecordOf(chat_history)) IN
    /\ r.raised = "none"
    /\ r.val.type = "list"
    /\ Len(r.val.items) = Len(chat_history.items)
    /\ Triples(r.val) = Triples(chat_history)

\* C3 witness: a fresh session that has loaded the four turns an earlier
\* session saved.
C3_Witness ==
  /\ pc = "idle"
  /\ Len(chat_history.items) = 4
  /\ \A i \in 1..4 : chat_history.items[i].type = "list"
  /\ file = RecordOf(chat_history)
  /\ \E i \in 1..4 : \E j \in 1..Len(chat_history.items[i].items[2].s) :
       chat_history.items[i].items[2].s[j] \in {QUOTE, BSL, NL, WARN}

\* C4 (as claimed): whenever the record is missing, malformed or unreadable,
\* the session start does not raise and the session has an empty transcript.
C4_LoadFailSoft ==
  [][(StartSession /\ ~IsTranscriptRecord(file)) =>
       /\ err' = "none"
       /\ pc' = "idle"
       /\ chat_history' = List(<<>>)]_vars

C6_StoredTextIsResponse ==
  [][(pc = "responding" /\ pc' = "saving") =>
       Last(chat_history'.items).items[2].s = response']_vars

\* C7 (as claimed): every change of chat_history.json installs the complete
\* new transcript; the file never holds anything else.
C7_SaveIsAtomic ==
  [][file' = file \/ file' = RecordOf(chat_history)]_vars

\* C8 (as claimed): whenever the session is ready for the next user action,
\* no user turn is left in the transcript without its assistant turn.
C8_NoDanglingUserTurn ==
  pc = "idle" =>
    \/ chat_history.items = <<>>
    \/ Last(chat_history.items).items[1].s # <<"user">>

\* C9: the resume analysis and a dataset upload, parseable or not, leave the
\* transcript and the record as they are and the session idle; with an
\* unparseable file in the uploader a question is still accepted and its
\* exchange still runs to the saved record.
C9_AuxiliaryOpsLeaveTranscript ==
  /\ [][((\E o \in Outcomes : \E o2 \in TailOutcomes(uploaded) : AnalyzeResume(o, o2))
          \/ (\E kind \in {"csv", "bad"} : \E o \in TailOutcomes(kind) :
                UploadData(kind, o))) =>
          /\ chat_history' = chat_history
          /\ file' = file
          /\ pc' = "idle"]_vars
  /\ [][(uploaded = "bad" /\ pc \notin {"start", "idle"} /\ pc' # "start") =>
          /\ uploaded' = "bad"
          /\ IsPrefix(chat_history.items, chat_history'.items)
          /\ (pc = "writing" /\ err' # "OSError" => file' = RecordOf(chat_history'))]_vars
  /\ [](uploaded = "bad" /\ pc = "idle" /\ chat_history.type = "list"
          /\ Len(chat_history.items) + 2 <= MaxTurns
        => ENABLED (\E q \in Questions, now \in Times : Submit(q, now)))

\* C9 witness: an exchange is being saved in a session whose uploader holds
\* an unparseable file.
C9_Witness ==
  /\ uploaded = "bad"
  /\ pc = "writing"
  /\ Len(chat_history.items) = 4

\* C10 (as claimed): every press of the export button produces the document,
\* the title and two cells per turn, without an exception and without
\* touching the transcript or the record.
C10_ExportAlwaysSucceeds ==
  [][(\E o \in TailOutcomes(uploaded) : ExportChat(o)) =>
       /\ err' = "none"
       /\ download'.exists
       /\ Len(download'.doc) = 1 + 2 * Len(chat_history.items)
       /\ chat_history' = chat_history
       /\ file' = file]_vars

====
